---- MODULE Spec2Model ----
(***************************************************************************)
(* Model of milung/ambulance-webapi:                                       *)
(*   - the connection manager and the generic document store of            *)
(*     internal/db_service/mongo_svc.go (mongoSvc), run by concurrent      *)
(*     tasks, one step per load / lock / driver call;                      *)
(*   - the waiting-list handlers of                                        *)
(*     internal/ambulance_wl/impl_ambulance_waiting_list.go.               *)
(* The MongoDB collection is a sequence of documents in natural order; a   *)
(* filter {id: x} matches the first document whose id field is x. The      *)
(* code creates no unique index, so the collection may hold duplicates.    *)
(***************************************************************************)
EXTENDS Integers, Sequences, FiniteSets, TLC

\* ------------------------------------------------------------------ bounds

\* Number of tasks (goroutines); each performs one store operation.
NTasks == 3
\* Number of tasks that run the mutating store operations concurrently.
NStoreTasks == 2

\* Longest waiting list a create may build.
MaxEntries == 2
\* Latest reading of the server clock.
MaxTime == 2
\* Number of ids uuid.NewString() hands out.
MaxUuids == 2
\* Number of waiting-list requests handled concurrently.
NReqTasks == 2

Tasks == 1..NTasks
StoreTasks == 1..NStoreTasks
ReqTasks == 1..NReqTasks

\* ------------------------------------------------------------- constants

NoTask == 0
NoClient == 0
\* A connection handle is the ordinal of the mongo.Connect call that made it.
Handles == 1..NTasks

Ids == {"a", "b"}
Vals == {1, 2}
\* A stored document: its own id field and its payload.
Docs == [id : Ids, val : Vals]
NoDoc == [id |-> "", val |-> 0]

ErrNotFound == "ErrNotFound"
ErrConflict == "ErrConflict"
ErrConnect == "ErrConnect"
ErrDisconnect == "ErrDisconnect"
Ok == "ok"
None == "none"

\* The ambulance document the store holds, and the ids a request may name.
AmbulanceId == "A1"
AmbulanceIds == {"A1", "A2"}
PatientIds == {"p1", "p2"}
\* The placeholder id a create request may carry.
Placeholder == "@new"
\* Entry ids a client supplies of its own.
ClientEntryIds == {"e1"}
\* The ids uuid.NewString() returns, in the order it returns them.
UuidNames == <<"u1", "u2", "u3", "u4">>
DefaultDuration == 15

\* time.Time{}: the zero time, before every clock reading.
ZeroTime == 0
Times == ZeroTime..MaxTime

\* A decoded request body: every field may be absent (empty, zero).
EntryInputs ==
    [Id : {"", Placeholder} \cup ClientEntryIds,
     PatientId : {""} \cup PatientIds,
     WaitingSince : Times,
     EstimatedDurationMinutes : {-1, 0, 5}]
\* The entryId path parameter.
PathEntryIds == {Placeholder} \cup ClientEntryIds \cup {UuidNames[i] : i \in 1..MaxUuids}

NoEntry == [Id |-> "", PatientId |-> "", WaitingSince |-> ZeroTime, EstimatedDurationMinutes |-> 0]
NoRequest == [op |-> None, ambulanceId |-> "", entryId |-> "", bound |-> FALSE, entry |-> NoEntry]
NoResponse == [request |-> NoRequest, status |-> 0, body |-> NoEntry, entries |-> <<>>]

\* No ambulance has been read yet.
NotLoaded == [read |-> FALSE, ambulanceId |-> "", list |-> <<>>]

StatusOK == 200
StatusNoContent == 204
StatusBadRequest == 400
StatusNotFound == 404
StatusConflict == 409
StatusInternalServerError == 500

VARIABLES
    client,      \* mongoSvc.client: the cached handle, or NoClient
    clientLock,  \* mongoSvc.clientLock: the task holding it, or NoTask
    conns,       \* number of successful mongo.Connect calls
    teardowns,   \* per handle: number of client.Disconnect calls on it
    db,          \* the collection: a sequence of documents
    pc,          \* per task: position in its operation
    op,          \* per task: the operation it runs
    argId,       \* per task: the id argument
    argDoc,      \* per task: the document argument
    handle,      \* per task: its local variable client
    result,      \* per task: the error it returned, Ok for nil
    found,       \* per task: the document FindDocument returned
    affected,    \* per task: documents its insert/replace/delete touched
    during,      \* per Disconnect: the task constructing when it was invoked
    now,         \* the server clock, as time.Now() reads it
    uuids,       \* number of ids uuid.NewString() has generated
    last,        \* the waiting-list request being answered and its response
    loaded,      \* per concurrent request: the ambulance FindDocument returned
    answer       \* per concurrent request: the request and its response

connVars == <<client, clientLock, conns, teardowns>>
taskVars == <<pc, op, argId, argDoc, handle, result, found, affected, during>>
raceVars == <<loaded, answer>>
wlVars == <<now, uuids, last, loaded, answer>>
vars == <<client, clientLock, conns, teardowns, db,
          pc, op, argId, argDoc, handle, result, found, affected, during,
          now, uuids, last, loaded, answer>>

\* ------------------------------------------------------ driver operations

\* Index of the first document matching filter {id: id}, 0 if none.
FirstMatch(coll, id) ==
    IF \E i \in 1..Len(coll) : coll[i].id = id
    THEN CHOOSE i \in 1..Len(coll) :
            /\ coll[i].id = id
            /\ \A j \in 1..(i - 1) : coll[j].id # id
    ELSE 0

HasDoc(coll, id) == FirstMatch(coll, id) # 0

\* collection.FindOne: the first match, NoDoc standing for ErrNoDocuments.
FindOne(coll, id) ==
    IF HasDoc(coll, id) THEN coll[FirstMatch(coll, id)] ELSE NoDoc

\* collection.InsertOne: appends the document as given.
InsertOne(coll, doc) == Append(coll, doc)

\* collection.ReplaceOne: replaces the first match; no match is no error.
ReplaceOne(coll, id, doc) ==
    IF HasDoc(coll, id)
    THEN [coll EXCEPT ![FirstMatch(coll, id)] = doc]
    ELSE coll

\* collection.DeleteOne: removes the first match; no match is no error.
DeleteOne(coll, id) ==
    IF HasDoc(coll, id)
    THEN LET k == FirstMatch(coll, id)
         IN  SubSeq(coll, 1, k - 1) \o SubSeq(coll, k + 1, Len(coll))
    ELSE coll

\* MatchedCount / DeletedCount of the two calls above.
MatchCount(coll, id) == IF HasDoc(coll, id) THEN 1 ELSE 0

\* ------------------------------------------------------------------- init

InitTasks ==
    /\ pc = [t \in Tasks |-> "idle"]
    /\ op = [t \in Tasks |-> None]
    /\ argId = [t \in Tasks |-> ""]
    /\ argDoc = [t \in Tasks |-> NoDoc]
    /\ handle = [t \in Tasks |-> NoClient]
    /\ result = [t \in Tasks |-> None]
    /\ found = [t \in Tasks |-> NoDoc]
    /\ affected = [t \in Tasks |-> 0]
    /\ during = [t \in Tasks |-> NoTask]

\* NewMongoService: no client, lock free.
InitConn ==
    /\ client = NoClient
    /\ clientLock = NoTask
    /\ conns = 0
    /\ teardowns = [h \in Handles |-> 0]

\* The collections a run starts from: empty, or one document under "a".
InitialCollections == {<<>>, <<[id |-> "a", val |-> 1]>>}

\* No waiting-list request is being answered.
InitRequests ==
    /\ now = 1
    /\ uuids = 0
    /\ last = NoResponse
    /\ loaded = [t \in ReqTasks |-> NotLoaded]
    /\ answer = [t \in ReqTasks |-> NoResponse]

Init ==
    /\ InitConn
    /\ InitTasks
    /\ InitRequests
    /\ db \in InitialCollections

\* ---------------------------------------------------------------- connect

\* The task inside mongo.Connect, holding the lock, if there is one.
Constructing ==
    IF \E u \in Tasks : pc[u] = "connect_construct"
    THEN CHOOSE u \in Tasks : pc[u] = "connect_construct"
    ELSE NoTask

\* Every store operation starts by calling connect. For a Disconnect the
\* task constructing a connection at that moment is noted.
Start(t, o, id, doc) ==
    /\ pc[t] = "idle"
    /\ pc' = [pc EXCEPT ![t] = IF o = "Disconnect" THEN "disc_load" ELSE "connect_load"]
    /\ op' = [op EXCEPT ![t] = o]
    /\ argId' = [argId EXCEPT ![t] = id]
    /\ argDoc' = [argDoc EXCEPT ![t] = doc]
    /\ during' = [during EXCEPT ![t] = IF o = "Disconnect" THEN Constructing ELSE NoTask]
    /\ UNCHANGED <<connVars, db, handle, result, found, affected>>
    /\ UNCHANGED wlVars

StartFind(t) == \E id \in Ids : Start(t, "Find", id, NoDoc)
StartCreate(t) == \E id \in Ids, doc \in Docs : Start(t, "Create", id, doc)
StartUpdate(t) == \E id \in Ids, doc \in Docs : Start(t, "Update", id, doc)
StartDelete(t) == \E id \in Ids : Start(t, "Delete", id, NoDoc)
StartDisconnect(t) == Start(t, "Disconnect", "", NoDoc)

\* connect, optimistic check: a cached client is returned without the lock.
ConnectLoad(t) ==
    /\ pc[t] = "connect_load"
    /\ handle' = [handle EXCEPT ![t] = client]
    /\ pc' = [pc EXCEPT ![t] = IF client # NoClient THEN "find_one" ELSE "connect_lock"]
    /\ UNCHANGED <<connVars, db, op, argId, argDoc, result, found, affected>>
    /\ UNCHANGED <<wlVars, during>>

\* A mutant of ConnectLock: connect goes on without taking the lock.
ConnectLockSkipped(t) ==
    /\ pc[t] = "connect_lock"
    /\ pc' = [pc EXCEPT ![t] = "connect_check"]
    /\ UNCHANGED <<connVars, db, op, argId, argDoc, handle, result, found, affected>>
    /\ UNCHANGED <<wlVars, during>>

\* connect, clientLock.Lock().
ConnectLock(t) ==
    /\ pc[t] = "connect_lock"
    /\ clientLock = NoTask
    /\ clientLock' = t
    /\ pc' = [pc EXCEPT ![t] = "connect_check"]
    /\ UNCHANGED <<client, conns, teardowns, db, op, argId, argDoc, handle, result, found, affected>>
    /\ UNCHANGED <<wlVars, during>>

\* A mutant of ConnectCheck: the second check is missing.
ConnectCheckNoRecheck(t) ==
    /\ pc[t] = "connect_check"
    /\ pc' = [pc EXCEPT ![t] = "connect_construct"]
    /\ UNCHANGED <<connVars, db, op, argId, argDoc, handle, result, found, affected>>
    /\ UNCHANGED <<wlVars, during>>

\* connect, pessimistic check under the lock; a hit returns and unlocks.
ConnectCheck(t) ==
    /\ pc[t] = "connect_check"
    /\ handle' = [handle EXCEPT ![t] = client]
    /\ IF client # NoClient
       THEN /\ pc' = [pc EXCEPT ![t] = "find_one"]
            /\ clientLock' = NoTask
       ELSE /\ pc' = [pc EXCEPT ![t] = "connect_construct"]
            /\ UNCHANGED clientLock
    /\ UNCHANGED <<client, conns, teardowns, db, op, argId, argDoc, result, found, affected>>
    /\ UNCHANGED <<wlVars, during>>

\* A mutant of ConnectConstruct: a failure keeps the lock.
ConnectConstructKeepsLock(t) ==
    /\ pc[t] = "connect_construct"
    /\ \E ok \in BOOLEAN :
        IF ok
        THEN /\ conns' = conns + 1
             /\ client' = conns + 1
             /\ handle' = [handle EXCEPT ![t] = conns + 1]
             /\ pc' = [pc EXCEPT ![t] = "find_one"]
             /\ clientLock' = NoTask
             /\ UNCHANGED result
        ELSE /\ result' = [result EXCEPT ![t] = ErrConnect]
             /\ pc' = [pc EXCEPT ![t] = "done"]
             /\ UNCHANGED <<client, conns, handle, clientLock>>
    /\ UNCHANGED <<teardowns, db, op, argId, argDoc, found, affected>>
    /\ UNCHANGED <<wlVars, during>>

\* connect, mongo.Connect: on success the client is stored and returned, on
\* failure the error is returned; the deferred Unlock runs either way.
ConnectConstruct(t) ==
    /\ pc[t] = "connect_construct"
    /\ \E ok \in BOOLEAN :
        IF ok
        THEN /\ conns' = conns + 1
             /\ client' = conns + 1
             /\ handle' = [handle EXCEPT ![t] = conns + 1]
             /\ pc' = [pc EXCEPT ![t] = "find_one"]
             /\ UNCHANGED result
        ELSE /\ result' = [result EXCEPT ![t] = ErrConnect]
             /\ pc' = [pc EXCEPT ![t] = "done"]
             /\ UNCHANGED <<client, conns, handle>>
    /\ clientLock' = NoTask
    /\ UNCHANGED <<teardowns, db, op, argId, argDoc, found, affected>>
    /\ UNCHANGED <<wlVars, during>>

\* ------------------------------------------------------------- Disconnect

\* Disconnect, first load: no client, nothing to do.
DiscLoad(t) ==
    /\ pc[t] = "disc_load"
    /\ handle' = [handle EXCEPT ![t] = client]
    /\ IF client # NoClient
       THEN /\ pc' = [pc EXCEPT ![t] = "disc_lock"]
            /\ UNCHANGED result
       ELSE /\ pc' = [pc EXCEPT ![t] = "done"]
            /\ result' = [result EXCEPT ![t] = Ok]
    /\ UNCHANGED <<connVars, db, op, argId, argDoc, found, affected>>
    /\ UNCHANGED <<wlVars, during>>

\* Disconnect, clientLock.Lock().
DiscLock(t) ==
    /\ pc[t] = "disc_lock"
    /\ clientLock = NoTask
    /\ clientLock' = t
    /\ pc' = [pc EXCEPT ![t] = "disc_check"]
    /\ UNCHANGED <<client, conns, teardowns, db, op, argId, argDoc, handle, result, found, affected>>
    /\ UNCHANGED <<wlVars, during>>

\* A mutant of DiscCheck: the client loaded before the lock is torn down.
DiscCheckNoReload(t) ==
    /\ pc[t] = "disc_check"
    /\ pc' = [pc EXCEPT ![t] = "disc_teardown"]
    /\ UNCHANGED <<connVars, db, op, argId, argDoc, handle, result, found, affected>>
    /\ UNCHANGED <<wlVars, during>>

\* Disconnect, second load under the lock.
DiscCheck(t) ==
    /\ pc[t] = "disc_check"
    /\ handle' = [handle EXCEPT ![t] = client]
    /\ pc' = [pc EXCEPT ![t] = IF client # NoClient THEN "disc_teardown" ELSE "disc_clear"]
    /\ UNCHANGED <<connVars, db, op, argId, argDoc, result, found, affected>>
    /\ UNCHANGED <<wlVars, during>>

\* Disconnect, client.Disconnect(ctx): the teardown, which may fail.
DiscTeardown(t) ==
    /\ pc[t] = "disc_teardown"
    /\ teardowns' = [teardowns EXCEPT ![handle[t]] = @ + 1]
    /\ \E ok \in BOOLEAN :
        result' = [result EXCEPT ![t] = IF ok THEN None ELSE ErrDisconnect]
    /\ pc' = [pc EXCEPT ![t] = "disc_clear"]
    /\ UNCHANGED <<client, clientLock, conns, db, op, argId, argDoc, handle, found, affected>>
    /\ UNCHANGED <<wlVars, during>>

\* Disconnect, the deferred Store(nil) and Unlock, then the return.
DiscClear(t) ==
    /\ pc[t] = "disc_clear"
    /\ client' = NoClient
    /\ clientLock' = NoTask
    /\ result' = [result EXCEPT ![t] = IF @ = ErrDisconnect THEN @ ELSE Ok]
    /\ pc' = [pc EXCEPT ![t] = "done"]
    /\ UNCHANGED <<conns, teardowns, db, op, argId, argDoc, handle, found, affected>>
    /\ UNCHANGED <<wlVars, during>>

\* ----------------------------------------------------------- FindDocument

\* FindDocument, FindOne and Decode.
FindDocumentFind(t) ==
    /\ pc[t] = "find_one"
    /\ op[t] = "Find"
    /\ IF HasDoc(db, argId[t])
       THEN /\ found' = [found EXCEPT ![t] = FindOne(db, argId[t])]
            /\ result' = [result EXCEPT ![t] = Ok]
       ELSE /\ result' = [result EXCEPT ![t] = ErrNotFound]
            /\ UNCHANGED found
    /\ pc' = [pc EXCEPT ![t] = "done"]
    /\ UNCHANGED <<connVars, db, op, argId, argDoc, handle, affected>>
    /\ UNCHANGED <<wlVars, during>>

\* --------------------------------------------------------- CreateDocument

\* A mutant of CreateDocumentFind: the conflict check is skipped.
CreateDocumentFindNoCheck(t) ==
    /\ pc[t] = "find_one"
    /\ op[t] = "Create"
    /\ pc' = [pc EXCEPT ![t] = "insert_one"]
    /\ UNCHANGED <<connVars, db, op, argId, argDoc, handle, result, found, affected>>
    /\ UNCHANGED <<wlVars, during>>

\* CreateDocument, FindOne: a match is a conflict.
CreateDocumentFind(t) ==
    /\ pc[t] = "find_one"
    /\ op[t] = "Create"
    /\ IF HasDoc(db, argId[t])
       THEN /\ result' = [result EXCEPT ![t] = ErrConflict]
            /\ pc' = [pc EXCEPT ![t] = "done"]
       ELSE /\ pc' = [pc EXCEPT ![t] = "insert_one"]
            /\ UNCHANGED result
    /\ UNCHANGED <<connVars, db, op, argId, argDoc, handle, found, affected>>
    /\ UNCHANGED <<wlVars, during>>

\* CreateDocument, InsertOne of the document as given.
CreateDocumentInsert(t) ==
    /\ pc[t] = "insert_one"
    /\ db' = InsertOne(db, argDoc[t])
    /\ affected' = [affected EXCEPT ![t] = 1]
    /\ result' = [result EXCEPT ![t] = Ok]
    /\ pc' = [pc EXCEPT ![t] = "done"]
    /\ UNCHANGED <<connVars, op, argId, argDoc, handle, found>>
    /\ UNCHANGED <<wlVars, during>>

\* --------------------------------------------------------- UpdateDocument

\* UpdateDocument, FindOne: no match is ErrNotFound.
UpdateDocumentFind(t) ==
    /\ pc[t] = "find_one"
    /\ op[t] = "Update"
    /\ IF HasDoc(db, argId[t])
       THEN /\ pc' = [pc EXCEPT ![t] = "replace_one"]
            /\ UNCHANGED result
       ELSE /\ result' = [result EXCEPT ![t] = ErrNotFound]
            /\ pc' = [pc EXCEPT ![t] = "done"]
    /\ UNCHANGED <<connVars, db, op, argId, argDoc, handle, found, affected>>
    /\ UNCHANGED <<wlVars, during>>

\* UpdateDocument, ReplaceOne: its result (MatchedCount) is discarded and
\* only its error is returned.
UpdateDocumentReplace(t) ==
    /\ pc[t] = "replace_one"
    /\ db' = ReplaceOne(db, argId[t], argDoc[t])
    /\ affected' = [affected EXCEPT ![t] = MatchCount(db, argId[t])]
    /\ result' = [result EXCEPT ![t] = Ok]
    /\ pc' = [pc EXCEPT ![t] = "done"]
    /\ UNCHANGED <<connVars, op, argId, argDoc, handle, found>>
    /\ UNCHANGED <<wlVars, during>>

\* --------------------------------------------------------- DeleteDocument

\* DeleteDocument, FindOne: no match is ErrNotFound.
DeleteDocumentFind(t) ==
    /\ pc[t] = "find_one"
    /\ op[t] = "Delete"
    /\ IF HasDoc(db, argId[t])
       THEN /\ pc' = [pc EXCEPT ![t] = "delete_one"]
            /\ UNCHANGED result
       ELSE /\ result' = [result EXCEPT ![t] = ErrNotFound]
            /\ pc' = [pc EXCEPT ![t] = "done"]
    /\ UNCHANGED <<connVars, db, op, argId, argDoc, handle, found, affected>>
    /\ UNCHANGED <<wlVars, during>>

\* DeleteDocument, DeleteOne: its result (DeletedCount) is discarded and
\* only its error is returned.
DeleteDocumentDelete(t) ==
    /\ pc[t] = "delete_one"
    /\ db' = DeleteOne(db, argId[t])
    /\ affected' = [affected EXCEPT ![t] = MatchCount(db, argId[t])]
    /\ result' = [result EXCEPT ![t] = Ok]
    /\ pc' = [pc EXCEPT ![t] = "done"]
    /\ UNCHANGED <<connVars, op, argId, argDoc, handle, found>>
    /\ UNCHANGED <<wlVars, during>>

\* ----------------------------------------------------------- waiting list

\* The entries of a list.
Entries(list) == {list[i] : i \in 1..Len(list)}

\* slices.IndexFunc: the first index whose entry satisfies f, 0 for -1; f is
\* the predicate as a function on the entries of the list.
IndexFunc(list, f) ==
    IF \E i \in 1..Len(list) : f[list[i]]
    THEN CHOOSE i \in 1..Len(list) :
            /\ f[list[i]]
            /\ \A j \in 1..(i - 1) : ~f[list[j]]
    ELSE 0

\* A mutant of InsertByWaitingSince: e goes before the entries that wait
\* since the same time.
RECURSIVE InsertBeforeEqual(_, _)
InsertBeforeEqual(sorted, e) ==
    IF sorted = <<>> THEN <<e>>
    ELSE IF sorted[Len(sorted)].WaitingSince < e.WaitingSince
         THEN Append(sorted, e)
         ELSE Append(InsertBeforeEqual(SubSeq(sorted, 1, Len(sorted) - 1), e),
                     sorted[Len(sorted)])

\* Insertion of e behind every entry that does not wait since later.
RECURSIVE InsertByWaitingSince(_, _)
InsertByWaitingSince(sorted, e) ==
    IF sorted = <<>> THEN <<e>>
    ELSE IF sorted[Len(sorted)].WaitingSince <= e.WaitingSince
         THEN Append(sorted, e)
         ELSE Append(InsertByWaitingSince(SubSeq(sorted, 1, Len(sorted) - 1), e),
                     sorted[Len(sorted)])

RECURSIVE SortByWaitingSince(_)
SortByWaitingSince(list) ==
    IF list = <<>> THEN <<>>
    ELSE InsertByWaitingSince(SortByWaitingSince(SubSeq(list, 1, Len(list) - 1)),
                              list[Len(list)])

\* A mutant of reconcileWaitingList: of the entries waiting since the same
\* time only the first is kept.
reconcileWaitingListDistinct(list) ==
    LET sorted == SortByWaitingSince(list)
        kept == {i \in 1..Len(sorted) :
                    i = 1 \/ sorted[i - 1].WaitingSince # sorted[i].WaitingSince}
        Nth(k) == CHOOSE i \in kept : Cardinality({j \in kept : j <= i}) = k
    IN  [k \in 1..Cardinality(kept) |-> sorted[Nth(k)]]

\* Ambulance.reconcileWaitingList: the list in arrival order (a stable sort
\* by WaitingSince).
reconcileWaitingList(list) == SortByWaitingSince(list)

\* What an updater hands back: the ambulance to save (save FALSE for nil),
\* the response body (an entry, or the entries of a list) and the status.
Saved(list, body, status) ==
    [save |-> TRUE, list |-> list, body |-> body, entries |-> <<>>, status |-> status]
Answered(body, entries, status) ==
    [save |-> FALSE, list |-> <<>>, body |-> body, entries |-> entries, status |-> status]
Refused(status) == Answered(NoEntry, <<>>, status)

\* uuid.NewString() is called for an entry without an id of its own.
NeedsUuid(bound, entry) ==
    bound /\ entry.PatientId # "" /\ entry.Id \in {"", Placeholder}

\* A mutant of CreateWaitingListEntry: conflicts are detected on Id only.
CreateWaitingListEntryIdOnly(list, bound, entry, now1, now2, uuid) ==
    IF ~bound THEN Refused(StatusBadRequest)
    ELSE IF entry.PatientId = "" THEN Refused(StatusBadRequest)
    ELSE
    LET e1 == IF entry.Id = "" \/ entry.Id = Placeholder
              THEN [entry EXCEPT !.Id = uuid] ELSE entry
        e2 == IF e1.WaitingSince < now1
              THEN [e1 EXCEPT !.WaitingSince = now2] ELSE e1
        e3 == IF e2.EstimatedDurationMinutes <= 0
              THEN [e2 EXCEPT !.EstimatedDurationMinutes = DefaultDuration] ELSE e2
        Conflicts(waiting) == e3.Id = waiting.Id
        conflictIndx == IndexFunc(list, [w \in Entries(list) |-> Conflicts(w)])
        reconciled == reconcileWaitingList(Append(list, e3))
        IsEntry(waiting) == e3.Id = waiting.Id
        entryIndx == IndexFunc(reconciled, [w \in Entries(reconciled) |-> IsEntry(w)])
    IN  IF conflictIndx > 0 THEN Refused(StatusConflict)
        ELSE IF entryIndx = 0 THEN Refused(StatusInternalServerError)
        ELSE Saved(reconciled, reconciled[entryIndx], StatusOK)

\* A mutant of CreateWaitingListEntry: only a duration of zero is replaced by
\* the default.
CreateWaitingListEntryZeroOnly(list, bound, entry, now1, now2, uuid) ==
    IF ~bound THEN Refused(StatusBadRequest)
    ELSE IF entry.PatientId = "" THEN Refused(StatusBadRequest)
    ELSE
    LET e1 == IF entry.Id = "" \/ entry.Id = Placeholder
              THEN [entry EXCEPT !.Id = uuid] ELSE entry
        e2 == IF e1.WaitingSince < now1
              THEN [e1 EXCEPT !.WaitingSince = now2] ELSE e1
        e3 == IF e2.EstimatedDurationMinutes = 0
              THEN [e2 EXCEPT !.EstimatedDurationMinutes = DefaultDuration] ELSE e2
        Conflicts(waiting) == e3.Id = waiting.Id \/ e3.PatientId = waiting.PatientId
        conflictIndx == IndexFunc(list, [w \in Entries(list) |-> Conflicts(w)])
        reconciled == reconcileWaitingList(Append(list, e3))
        IsEntry(waiting) == e3.Id = waiting.Id
        entryIndx == IndexFunc(reconciled, [w \in Entries(reconciled) |-> IsEntry(w)])
    IN  IF conflictIndx > 0 THEN Refused(StatusConflict)
        ELSE IF entryIndx = 0 THEN Refused(StatusInternalServerError)
        ELSE Saved(reconciled, reconciled[entryIndx], StatusOK)

\* A mutant of CreateWaitingListEntry: only an empty Id is replaced by a
\* generated one, the placeholder is kept.
CreateWaitingListEntryEmptyOnly(list, bound, entry, now1, now2, uuid) ==
    IF ~bound THEN Refused(StatusBadRequest)
    ELSE IF entry.PatientId = "" THEN Refused(StatusBadRequest)
    ELSE
    LET e1 == IF entry.Id = ""
              THEN [entry EXCEPT !.Id = uuid] ELSE entry
        e2 == IF e1.WaitingSince < now1
              THEN [e1 EXCEPT !.WaitingSince = now2] ELSE e1
        e3 == IF e2.EstimatedDurationMinutes <= 0
              THEN [e2 EXCEPT !.EstimatedDurationMinutes = DefaultDuration] ELSE e2
        Conflicts(waiting) == e3.Id = waiting.Id \/ e3.PatientId = waiting.PatientId
        conflictIndx == IndexFunc(list, [w \in Entries(list) |-> Conflicts(w)])
        reconciled == reconcileWaitingList(Append(list, e3))
        IsEntry(waiting) == e3.Id = waiting.Id
        entryIndx == IndexFunc(reconciled, [w \in Entries(reconciled) |-> IsEntry(w)])
    IN  IF conflictIndx > 0 THEN Refused(StatusConflict)
        ELSE IF entryIndx = 0 THEN Refused(StatusInternalServerError)
        ELSE Saved(reconciled, reconciled[entryIndx], StatusOK)

\* CreateWaitingListEntry's updater. bound: ShouldBindJSON succeeded; now1
\* and now2: the two readings of time.Now(); uuid: what uuid.NewString()
\* returns if called.
CreateWaitingListEntry(list, bound, entry, now1, now2, uuid) ==
    IF ~bound THEN Refused(StatusBadRequest)
    ELSE IF entry.PatientId = "" THEN Refused(StatusBadRequest)
    ELSE
    LET e1 == IF entry.Id = "" \/ entry.Id = Placeholder
              THEN [entry EXCEPT !.Id = uuid] ELSE entry
        e2 == IF e1.WaitingSince < now1
              THEN [e1 EXCEPT !.WaitingSince = now2] ELSE e1
        e3 == IF e2.EstimatedDurationMinutes <= 0
              THEN [e2 EXCEPT !.EstimatedDurationMinutes = DefaultDuration] ELSE e2
        Conflicts(waiting) == e3.Id = waiting.Id \/ e3.PatientId = waiting.PatientId
        conflictIndx == IndexFunc(list, [w \in Entries(list) |-> Conflicts(w)])
        reconciled == reconcileWaitingList(Append(list, e3))
        IsEntry(waiting) == e3.Id = waiting.Id
        entryIndx == IndexFunc(reconciled, [w \in Entries(reconciled) |-> IsEntry(w)])
    IN  IF conflictIndx > 0 THEN Refused(StatusConflict)
        ELSE IF entryIndx = 0 THEN Refused(StatusInternalServerError)
        ELSE Saved(reconciled, reconciled[entryIndx], StatusOK)

\* A mutant of DeleteWaitingListEntry: an entry that is not found is taken
\* as deleted.
DeleteWaitingListEntryNoCheck(list, entryId) ==
    IF entryId = "" THEN Refused(StatusBadRequest)
    ELSE
    LET IsEntry(waiting) == entryId = waiting.Id
        entryIndx == IndexFunc(list, [w \in Entries(list) |-> IsEntry(w)])
    IN  [save |-> TRUE,
         list |-> reconcileWaitingList(SubSeq(list, 1, entryIndx - 1)
                                       \o SubSeq(list, entryIndx + 1, Len(list))),
         body |-> NoEntry, entries |-> <<>>, status |-> StatusNoContent]

\* A mutant of DeleteWaitingListEntry: the list without the entry is
\* dropped and the list found is saved.
DeleteWaitingListEntryKeepsList(list, entryId) ==
    IF entryId = "" THEN Refused(StatusBadRequest)
    ELSE
    LET IsEntry(waiting) == entryId = waiting.Id
        entryIndx == IndexFunc(list, [w \in Entries(list) |-> IsEntry(w)])
    IN  IF entryIndx = 0 THEN Refused(StatusNotFound)
        ELSE [save |-> TRUE, list |-> reconcileWaitingList(list),
              body |-> NoEntry, entries |-> <<>>, status |-> StatusNoContent]

\* DeleteWaitingListEntry's updater.
DeleteWaitingListEntry(list, entryId) ==
    IF entryId = "" THEN Refused(StatusBadRequest)
    ELSE
    LET IsEntry(waiting) == entryId = waiting.Id
        entryIndx == IndexFunc(list, [w \in Entries(list) |-> IsEntry(w)])
    IN  IF entryIndx = 0 THEN Refused(StatusNotFound)
        ELSE [save |-> TRUE,
              list |-> reconcileWaitingList(SubSeq(list, 1, entryIndx - 1)
                                            \o SubSeq(list, entryIndx + 1, Len(list))),
              body |-> NoEntry, entries |-> <<>>, status |-> StatusNoContent]

\* GetWaitingListEntries' updater: the list, never nil; nothing is saved.
GetWaitingListEntries(list) == Answered(NoEntry, list, StatusOK)

\* GetWaitingListEntry's updater; nothing is saved.
GetWaitingListEntry(list, entryId) ==
    IF entryId = "" THEN Refused(StatusBadRequest)
    ELSE
    LET IsEntry(waiting) == entryId = waiting.Id
        entryIndx == IndexFunc(list, [w \in Entries(list) |-> IsEntry(w)])
    IN  IF entryIndx = 0 THEN Refused(StatusNotFound)
        ELSE Answered(list[entryIndx], <<>>, StatusOK)

\* A mutant of UpdateWaitingListEntry: every field of the body overwrites
\* the stored one, supplied or not.
UpdateWaitingListEntryOverwritesAll(list, bound, entryId, entry) ==
    IF ~bound THEN Refused(StatusBadRequest)
    ELSE IF entryId = "" THEN Refused(StatusBadRequest)
    ELSE
    LET IsEntry(waiting) == entryId = waiting.Id
        entryIndx == IndexFunc(list, [w \in Entries(list) |-> IsEntry(w)])
    IN  IF entryIndx = 0 THEN Refused(StatusNotFound)
        ELSE
        LET reconciled == reconcileWaitingList([list EXCEPT ![entryIndx] = entry])
        IN  Saved(reconciled, reconciled[entryIndx], StatusOK)

\* UpdateWaitingListEntry's updater: supplied fields overwrite the entry in
\* place, the list is reconciled and the entry then at the same index is
\* returned.
UpdateWaitingListEntry(list, bound, entryId, entry) ==
    IF ~bound THEN Refused(StatusBadRequest)
    ELSE IF entryId = "" THEN Refused(StatusBadRequest)
    ELSE
    LET IsEntry(waiting) == entryId = waiting.Id
        entryIndx == IndexFunc(list, [w \in Entries(list) |-> IsEntry(w)])
    IN  IF entryIndx = 0 THEN Refused(StatusNotFound)
        ELSE
        LET w0 == list[entryIndx]
            w1 == IF entry.PatientId # "" THEN [w0 EXCEPT !.PatientId = entry.PatientId] ELSE w0
            w2 == IF entry.Id # "" THEN [w1 EXCEPT !.Id = entry.Id] ELSE w1
            w3 == IF entry.WaitingSince > ZeroTime
                  THEN [w2 EXCEPT !.WaitingSince = entry.WaitingSince] ELSE w2
            w4 == IF entry.EstimatedDurationMinutes > 0
                  THEN [w3 EXCEPT !.EstimatedDurationMinutes = entry.EstimatedDurationMinutes]
                  ELSE w3
            reconciled == reconcileWaitingList([list EXCEPT ![entryIndx] = w4])
        IN  Saved(reconciled, reconciled[entryIndx], StatusOK)

\* The waiting list of the stored ambulance.
WaitingList == FindOne(db, AmbulanceId).val

\* A request as the router hands it to a handler: the operation, the path
\* parameters, and the body with whether ShouldBindJSON decoded it.
Request(o, ambulanceId, entryId, bound, entry) ==
    [op |-> o, ambulanceId |-> ambulanceId, entryId |-> entryId,
     bound |-> bound, entry |-> entry]

\* The waiting list the store holds for an ambulance, empty if it holds none.
ListOf(ambulanceId) ==
    IF HasDoc(db, ambulanceId) THEN FindOne(db, ambulanceId).val ELSE <<>>

\* updateAmbulanceFunc: find the ambulance, run the updater on it, save the
\* ambulance the updater hands back, answer with its body and status. r is
\* the updater's result on the waiting list found. Requests are handled one
\* at a time: the next is taken once the response of the last is out.
updateAmbulanceFunc(request, r) ==
    /\ IF ~HasDoc(db, request.ambulanceId)
       THEN /\ last' = [request |-> request, status |-> StatusNotFound,
                        body |-> NoEntry, entries |-> <<>>]
            /\ UNCHANGED db
       ELSE /\ last' = [request |-> request, status |-> r.status,
                        body |-> r.body, entries |-> r.entries]
            /\ db' = IF r.save
                     THEN ReplaceOne(db, request.ambulanceId,
                            [FindOne(db, request.ambulanceId) EXCEPT !.val = r.list])
                     ELSE db
    /\ UNCHANGED <<connVars, taskVars, raceVars>>

\* The service is connected and no request is being answered.
Ready == client # NoClient /\ last = NoResponse

\* The bodies worth sending with a request: an undecodable body, or a body
\* sent to an ambulance the store does not hold, is answered whatever it
\* says, so one body stands for all of them.
Bodies(ambulanceId, bound) ==
    IF bound /\ HasDoc(db, ambulanceId) THEN EntryInputs ELSE {NoEntry}

\* POST /waiting-list/:ambulanceId/entries
CreateEntry ==
    /\ Ready
    /\ \E ambulanceId \in AmbulanceIds, bound \in BOOLEAN :
      \E entry \in Bodies(ambulanceId, bound) :
        LET called == HasDoc(db, ambulanceId) /\ NeedsUuid(bound, entry)
            \* time.Now() is read a second time only for an entry waiting
            \* since before the first reading
            again == /\ HasDoc(db, ambulanceId) /\ bound /\ entry.PatientId # ""
                     /\ entry.WaitingSince < now
        IN  \E now2 \in (IF again THEN now..(now + 1) ELSE {now}) :
            LET r == CreateWaitingListEntry(ListOf(ambulanceId), bound, entry, now, now2,
                                            UuidNames[uuids + 1])
            IN  /\ now2 <= MaxTime
                /\ called => uuids < MaxUuids
                /\ r.save => Len(r.list) <= MaxEntries
                /\ updateAmbulanceFunc(Request("Create", ambulanceId, "", bound, entry), r)
                /\ now' = now2
                /\ uuids' = IF called THEN uuids + 1 ELSE uuids

\* PUT /waiting-list/:ambulanceId/entries/:entryId
UpdateEntry ==
    /\ Ready
    /\ \E ambulanceId \in AmbulanceIds, bound \in BOOLEAN, entryId \in PathEntryIds :
      \E entry \in Bodies(ambulanceId, bound) :
        /\ updateAmbulanceFunc(Request("Update", ambulanceId, entryId, bound, entry),
                UpdateWaitingListEntry(ListOf(ambulanceId), bound, entryId, entry))
        /\ UNCHANGED <<now, uuids>>

\* DELETE /waiting-list/:ambulanceId/entries/:entryId
DeleteEntry ==
    /\ Ready
    /\ \E ambulanceId \in AmbulanceIds, entryId \in PathEntryIds :
        /\ updateAmbulanceFunc(Request("Delete", ambulanceId, entryId, FALSE, NoEntry),
                DeleteWaitingListEntry(ListOf(ambulanceId), entryId))
        /\ UNCHANGED <<now, uuids>>

\* GET /waiting-list/:ambulanceId/entries
GetEntries ==
    /\ Ready
    /\ \E ambulanceId \in AmbulanceIds :
        /\ updateAmbulanceFunc(Request("GetAll", ambulanceId, "", FALSE, NoEntry),
                GetWaitingListEntries(ListOf(ambulanceId)))
        /\ UNCHANGED <<now, uuids>>

\* GET /waiting-list/:ambulanceId/entries/:entryId
GetEntry ==
    /\ Ready
    /\ \E ambulanceId \in AmbulanceIds, entryId \in PathEntryIds :
        /\ updateAmbulanceFunc(Request("Get", ambulanceId, entryId, FALSE, NoEntry),
                GetWaitingListEntry(ListOf(ambulanceId), entryId))
        /\ UNCHANGED <<now, uuids>>

\* The response is written out and the request ends.
Respond ==
    /\ last # NoResponse
    /\ last' = NoResponse
    /\ UNCHANGED <<connVars, taskVars, raceVars, db, now, uuids>>

\* The server clock advances.
Tick ==
    /\ now < MaxTime
    /\ now' = now + 1
    /\ UNCHANGED <<connVars, taskVars, raceVars, db, uuids, last>>

\* -------------------------------------------------- concurrent requests

\* The bodies of concurrent create requests: an Id and a patient, or
\* neither, and no arrival time or duration.
RaceInputs ==
    {e \in EntryInputs : e.WaitingSince = ZeroTime /\ e.EstimatedDurationMinutes = 0}

RaceResponse(ambulanceId, bound, entry, status, body) ==
    [request |-> Request("Create", ambulanceId, "", bound, entry),
     status |-> status, body |-> body, entries |-> <<>>]

\* updateAmbulanceFunc, first half: FindDocument reads the ambulance; a
\* missing ambulance is answered 404.
FindAmbulance(t) ==
    /\ client # NoClient
    /\ ~loaded[t].read
    /\ answer[t] = NoResponse
    /\ \E ambulanceId \in AmbulanceIds :
        IF HasDoc(db, ambulanceId)
        THEN /\ loaded' = [loaded EXCEPT ![t] =
                    [read |-> TRUE, ambulanceId |-> ambulanceId,
                     list |-> FindOne(db, ambulanceId).val]]
             /\ UNCHANGED answer
        ELSE /\ answer' = [answer EXCEPT ![t] =
                    RaceResponse(ambulanceId, FALSE, NoEntry, StatusNotFound, NoEntry)]
             /\ UNCHANGED loaded
    /\ UNCHANGED <<connVars, taskVars, db, now, uuids, last>>

\* A mutant of CreateEntrySave: the updater runs on the list the store
\* holds when the ambulance is saved, not on the list read before.
CreateEntrySaveRereads(t) ==
    /\ loaded[t].read
    /\ answer[t] = NoResponse
    /\ \E bound \in BOOLEAN :
      \E entry \in (IF bound THEN RaceInputs ELSE {NoEntry}) :
        LET id == loaded[t].ambulanceId
            called == NeedsUuid(bound, entry)
            r == CreateWaitingListEntry(ListOf(id), bound, entry, now, now,
                                        UuidNames[uuids + 1])
        IN  /\ called => uuids < MaxUuids
            /\ r.save => Len(r.list) <= MaxEntries
            /\ answer' = [answer EXCEPT ![t] =
                    RaceResponse(id, bound, entry, r.status, r.body)]
            /\ db' = IF r.save /\ HasDoc(db, id)
                     THEN ReplaceOne(db, id, [id |-> id, val |-> r.list])
                     ELSE db
            /\ uuids' = IF called THEN uuids + 1 ELSE uuids
    /\ UNCHANGED <<connVars, taskVars, now, last, loaded>>

\* updateAmbulanceFunc, second half, for POST /waiting-list/:ambulanceId/
\* entries: the updater runs on the ambulance read, and the ambulance it
\* hands back replaces the stored document as a whole (UpdateDocument).
CreateEntrySave(t) ==
    /\ loaded[t].read
    /\ answer[t] = NoResponse
    /\ \E bound \in BOOLEAN :
      \E entry \in (IF bound THEN RaceInputs ELSE {NoEntry}) :
        LET id == loaded[t].ambulanceId
            called == NeedsUuid(bound, entry)
            r == CreateWaitingListEntry(loaded[t].list, bound, entry, now, now,
                                        UuidNames[uuids + 1])
        IN  /\ called => uuids < MaxUuids
            /\ r.save => Len(r.list) <= MaxEntries
            /\ answer' = [answer EXCEPT ![t] =
                    RaceResponse(id, bound, entry, r.status, r.body)]
            /\ db' = IF r.save /\ HasDoc(db, id)
                     THEN ReplaceOne(db, id, [id |-> id, val |-> r.list])
                     ELSE db
            /\ uuids' = IF called THEN uuids + 1 ELSE uuids
    /\ UNCHANGED <<connVars, taskVars, now, last, loaded>>

\* ------------------------------------------------------- reconciliation

\* Entries as a handler may hold them in memory before reconciliation.
ReconcileEntries ==
    [Id : ClientEntryIds \cup {UuidNames[1]},
     PatientId : PatientIds,
     WaitingSince : 1..MaxTime,
     EstimatedDurationMinutes : {DefaultDuration}]

\* The lists of at most MaxEntries such entries, in any order.
ReconcileLists == UNION {[1..n -> ReconcileEntries] : n \in 0..MaxEntries}

\* ambulance.reconcileWaitingList(spanctx) on the list a handler holds; the
\* list as it was before is kept in answer.
Reconcile(t) ==
    /\ loaded[t].read
    /\ answer[t] = NoResponse
    /\ loaded' = [loaded EXCEPT ![t].list = reconcileWaitingList(@)]
    /\ answer' = [answer EXCEPT ![t] =
            [request |-> Request("Reconcile", loaded[t].ambulanceId, "", FALSE, NoEntry),
             status |-> 0, body |-> NoEntry, entries |-> loaded[t].list]]
    /\ UNCHANGED <<connVars, taskVars, db, now, uuids, last>>

\* ------------------------------------------------------- specifications

\* The connection manager under concurrent store reads and Disconnects.
Next ==
    \E t \in Tasks :
        \/ StartFind(t)
        \/ StartDisconnect(t)
        \/ ConnectLoad(t)
        \/ ConnectLock(t)
        \/ ConnectCheck(t)
        \/ ConnectConstruct(t)
        \/ FindDocumentFind(t)
        \/ DiscLoad(t)
        \/ DiscLock(t)
        \/ DiscCheck(t)
        \/ DiscTeardown(t)
        \/ DiscClear(t)

Spec == Init /\ [][Next]_vars

\* The steps of the four store operations once started.
StoreStep(t) ==
    \/ ConnectLoad(t)
    \/ ConnectLock(t)
    \/ ConnectCheck(t)
    \/ ConnectConstruct(t)
    \/ FindDocumentFind(t)
    \/ CreateDocumentFind(t)
    \/ CreateDocumentInsert(t)
    \/ UpdateDocumentFind(t)
    \/ UpdateDocumentReplace(t)
    \/ DeleteDocumentFind(t)
    \/ DeleteDocumentDelete(t)

StoreStart(t) ==
    \/ StartFind(t)
    \/ StartCreate(t)
    \/ StartUpdate(t)
    \/ StartDelete(t)

\* The document store shared by concurrent tasks.
NextStore == \E t \in StoreTasks : StoreStart(t) \/ StoreStep(t)

SpecStore == Init /\ [][NextStore]_vars

\* No task is inside an operation.
Quiescent == \A t \in Tasks : pc[t] \in {"idle", "done"}

\* The document store called by one task at a time.
NextSeq ==
    \E t \in StoreTasks :
        \/ Quiescent /\ StoreStart(t)
        \/ StoreStep(t)

SpecSeq == Init /\ [][NextSeq]_vars

\* The service once connected, holding ambulance A1 with nobody waiting.
InitWL ==
    /\ client = 1
    /\ clientLock = NoTask
    /\ conns = 1
    /\ teardowns = [h \in Handles |-> 0]
    /\ InitTasks
    /\ InitRequests
    /\ db = <<[id |-> AmbulanceId, val |-> <<>>]>>

\* Waiting-list requests handled one after the other.
NextWL ==
    \/ CreateEntry
    \/ UpdateEntry
    \/ DeleteEntry
    \/ GetEntries
    \/ GetEntry
    \/ Respond
    \/ Tick

SpecWL == InitWL /\ [][NextWL]_vars

\* Create-entry requests handled concurrently.
NextRace == \E t \in ReqTasks : FindAmbulance(t) \/ CreateEntrySave(t)

SpecRace == InitWL /\ [][NextRace]_vars

\* A handler holds a list of ambulance A1, in any order.
InitReconcile ==
    /\ client = 1
    /\ clientLock = NoTask
    /\ conns = 1
    /\ teardowns = [h \in Handles |-> 0]
    /\ InitTasks
    /\ now = 1
    /\ uuids = 1
    /\ last = NoResponse
    /\ answer = [t \in ReqTasks |-> NoResponse]
    /\ \E list \in ReconcileLists :
        loaded = [t \in ReqTasks |->
                    IF t = 1
                    THEN [read |-> TRUE, ambulanceId |-> AmbulanceId, list |-> list]
                    ELSE NotLoaded]
    /\ db = <<[id |-> AmbulanceId, val |-> <<>>]>>

\* The list is reconciled, or, being in order, handed to Create-entry.
NextReconcile ==
    \/ Reconcile(1)
    \/ (reconcileWaitingList(loaded[1].list) = loaded[1].list /\ CreateEntrySave(1))

SpecReconcile == InitReconcile /\ [][NextReconcile]_vars

\* ------------------------------------------------------------ properties

\* connect has returned a client to task t.
Connected(t) ==
    \/ pc[t] \in {"find_one", "insert_one", "replace_one", "delete_one"}
    \/ (op[t] # "Disconnect" /\ pc[t] = "done" /\ result[t] # ErrConnect)

\* Every document passed to the store carries the id it is passed under.
WellKeyed ==
    \A v \in Tasks : op[v] \in {"Create", "Update"} => argDoc[v].id = argId[v]

\* C1: while no Disconnect has been called and no construction has failed,
\* concurrent connect calls construct the connection at most once, exactly
\* once as soon as one of them has returned, and every caller holds the one
\* cached handle.
C1_SingleConstruction ==
    ((\A t \in Tasks : op[t] # "Disconnect") /\ (\A t \in Tasks : result[t] # ErrConnect))
    => /\ conns <= 1
       /\ \A t \in Tasks : Connected(t) =>
            /\ conns = 1
            /\ handle[t] = client
            /\ handle[t] # NoClient

\* C1 witness: a task that saw no client in its optimistic check holds the
\* lock and finds the client another caller has constructed meanwhile.
C1_Witness ==
    /\ \A t \in Tasks : op[t] = "Find"
    /\ \E t, u \in Tasks :
        /\ pc[t] = "connect_check"
        /\ client # NoClient
        /\ pc[u] = "done"
        /\ result[u] \in {Ok, ErrNotFound}
        /\ conns = 1

\* C3: of two completed CreateDocument calls for the same id, run with no
\* delete or update beside them, at least one returned Conflict.
C3_DuplicateCreateConflicts ==
    \A t, u \in Tasks :
        ( /\ t # u
          /\ op[t] = "Create" /\ op[u] = "Create"
          /\ argId[t] = argId[u]
          /\ WellKeyed
          /\ pc[t] = "done" /\ pc[u] = "done"
          /\ result[t] # ErrConnect /\ result[u] # ErrConnect
          /\ \A v \in Tasks : op[v] \in {None, "Create", "Find"} )
        => (result[t] = ErrConflict \/ result[u] = ErrConflict)

\* C4: an UpdateDocument that returned success replaced a document that
\* existed when the replacement was performed, whatever DeleteDocument calls
\* ran beside it (every document being passed under its own id).
C4_UpdateSuccessReplaced ==
    WellKeyed =>
        \A t \in Tasks :
            (op[t] = "Update" /\ pc[t] = "done" /\ result[t] = Ok) => affected[t] = 1

\* C5: a DeleteDocument that returned success removed a document, so of the
\* deletes racing for one document of an id exactly one succeeds.
C5_DeleteSuccessRemoved ==
    /\ WellKeyed =>
        \A t \in Tasks :
            (op[t] = "Delete" /\ pc[t] = "done" /\ result[t] = Ok) => affected[t] = 1
    /\ (\A v \in Tasks : op[v] \in {None, "Delete"}) =>
        \A id \in Ids :
            Cardinality({t \in Tasks : argId[t] = id /\ pc[t] = "done" /\ result[t] = Ok}) <= 1

\* C6: with one caller at a time, the step that ends a CreateDocument returns
\* Conflict and leaves the collection as it is when a document with the id
\* exists, and otherwise appends the document and returns success; no
\* earlier step of the call changes the collection.
C6_CreateSequential ==
    [][\A t \in Tasks :
        (op[t] = "Create" /\ pc'[t] # pc[t]) =>
            IF pc'[t] # "done" \/ result'[t] = ErrConnect
            THEN db' = db
            ELSE IF HasDoc(db, argId[t])
                 THEN result'[t] = ErrConflict /\ db' = db
                 ELSE result'[t] = Ok /\ db' = Append(db, argDoc[t])]_vars

\* C6 witness: one create was refused with Conflict, another inserted.
C6_Witness ==
    \E t, u \in Tasks :
        /\ op[t] = "Create" /\ pc[t] = "done" /\ result[t] = ErrConflict
        /\ op[u] = "Create" /\ pc[u] = "done" /\ result[u] = Ok
        /\ argDoc[u] \in {db[i] : i \in 1..Len(db)}

\* C7: a failed construction returns the error with the cached handle
\* empty and the lock free, and a connect that finds the handle empty under
\* the lock goes on to construct.
C7_FailureNotCached ==
    [][\A t \in Tasks :
        /\ (pc[t] = "connect_construct" /\ pc'[t] = "done") =>
              /\ result'[t] = ErrConnect
              /\ client' = NoClient
              /\ clientLock' = NoTask
        /\ (pc[t] = "connect_load" /\ client = NoClient /\ pc'[t] # pc[t]) =>
              pc'[t] = "connect_lock"
        /\ (pc[t] = "connect_check" /\ client = NoClient /\ pc'[t] # pc[t]) =>
              pc'[t] = "connect_construct"]_vars

\* C7 witness: one connect call failed and a later one has constructed.
C7_Witness ==
    /\ \A t \in Tasks : op[t] # "Disconnect"
    /\ \E t \in Tasks : pc[t] = "done" /\ result[t] = ErrConnect
    /\ client # NoClient

\* C8: every connection is torn down at most once, and a Disconnect that
\* loads an empty handle returns success and changes nothing.
C8_DisconnectIdempotent ==
    /\ [](\A h \in Handles : teardowns[h] <= 1)
    /\ [][\A t \in Tasks :
            (pc[t] = "disc_load" /\ client = NoClient /\ pc'[t] # pc[t]) =>
                /\ pc'[t] = "done"
                /\ result'[t] = Ok
                /\ UNCHANGED <<connVars, db>>]_vars

\* C8 witness: two Disconnect calls have returned after one connection was
\* constructed and torn down.
C8_Witness ==
    \E t, u \in Tasks :
        /\ t # u
        /\ op[t] = "Disconnect" /\ pc[t] = "done"
        /\ op[u] = "Disconnect" /\ pc[u] = "done"
        /\ conns = 1
        /\ teardowns[1] = 1

\* A handler step: a request is taken and answered in last'.
Handled(o) == last = NoResponse /\ last'.request.op = o

\* C2: in the stored waiting list no two entries share Id and no two share
\* PatientId.
C2_UniqueEntries ==
    \A i, j \in 1..Len(WaitingList) :
        i # j => /\ WaitingList[i].Id # WaitingList[j].Id
                 /\ WaitingList[i].PatientId # WaitingList[j].PatientId

\* C9: the WaitingSince of an entry Create-entry stored is not later than
\* the server clock when the create has been handled.
C9_WaitingSinceNotInFuture ==
    [][(Handled("Create") /\ last'.status = StatusOK)
        => last'.body.WaitingSince <= now']_vars

\* The request's entry has the Id or the PatientId of a waiting entry.
SharesIdOrPatient(entry, list) ==
    \E i \in 1..Len(list) :
        entry.Id = list[i].Id \/ entry.PatientId = list[i].PatientId

\* The same, for an entry that passes validation and for the Id it keeps: an
\* entry without PatientId is refused before the list is searched, and an
\* empty Id and the placeholder are replaced by a generated id.
KeepsIdOrPatientOf(entry, list) ==
    /\ entry.PatientId # ""
    /\ \E i \in 1..Len(list) :
        \/ (entry.Id \notin {"", Placeholder} /\ entry.Id = list[i].Id)
        \/ entry.PatientId = list[i].PatientId

\* C10 as stated: a Create-entry whose Id or PatientId is that of a waiting
\* entry is refused with 409 and the stored list stays as it is.
C10_Original ==
    [][(/\ Handled("Create")
        /\ last'.request.bound
        /\ SharesIdOrPatient(last'.request.entry, ListOf(last'.request.ambulanceId)))
        => (last'.status = StatusConflict /\ db' = db)]_vars

\* C10 amended: a Create-entry that names a patient and whose PatientId, or
\* whose Id other than empty and the placeholder, is that of a waiting entry
\* is refused with 409 and the stored list stays as it is.
C10_ConflictRefused ==
    [][(/\ Handled("Create")
        /\ last'.request.bound
        /\ KeepsIdOrPatientOf(last'.request.entry, ListOf(last'.request.ambulanceId)))
        => (last'.status = StatusConflict /\ db' = db)]_vars

\* C10 witness: a create was refused for its Id alone, its patient not being
\* on the list.
C10_Witness ==
    /\ last.request.op = "Create"
    /\ last.status = StatusConflict
    /\ \E i \in 1..Len(WaitingList) : WaitingList[i].Id = last.request.entry.Id
    /\ \A i \in 1..Len(WaitingList) : WaitingList[i].PatientId # last.request.entry.PatientId

\* The waiting list a collection holds for an ambulance.
ListIn(coll, ambulanceId) ==
    IF HasDoc(coll, ambulanceId) THEN FindOne(coll, ambulanceId).val ELSE <<>>

\* The number of times an entry occurs in a list.
Count(list, e) == Cardinality({i \in 1..Len(list) : list[i] = e})

\* Two lists hold the same entries, each as often, in whatever order.
SameEntries(l1, l2) ==
    /\ Len(l1) = Len(l2)
    /\ \A e \in Entries(l1) \cup Entries(l2) : Count(l1, e) = Count(l2, e)

\* The first index of the entry with an id, 0 if there is none.
IndexOfId(list, id) ==
    IF \E i \in 1..Len(list) : list[i].Id = id
    THEN CHOOSE i \in 1..Len(list) :
            list[i].Id = id /\ \A j \in 1..(i - 1) : list[j].Id # id
    ELSE 0

\* A stored entry patched by a body: a field is taken from the body only if
\* the body supplies it non-empty, after the zero time, greater than zero.
PatchOf(stored, body) ==
    [Id |-> IF body.Id # "" THEN body.Id ELSE stored.Id,
     PatientId |-> IF body.PatientId # "" THEN body.PatientId ELSE stored.PatientId,
     WaitingSince |-> IF body.WaitingSince > ZeroTime
                      THEN body.WaitingSince ELSE stored.WaitingSince,
     EstimatedDurationMinutes |-> IF body.EstimatedDurationMinutes > 0
                                  THEN body.EstimatedDurationMinutes
                                  ELSE stored.EstimatedDurationMinutes]

\* C11: a successful Update-entry stores the list it found with the entry
\* addressed patched by the fields the body supplies and with every other
\* entry as it was; only the order may differ.
C11_PartialUpdate ==
    [][(Handled("Update") /\ last'.status = StatusOK) =>
        LET list == ListIn(db, last'.request.ambulanceId)
            idx == IndexOfId(list, last'.request.entryId)
        IN  /\ idx > 0
            /\ SameEntries(ListIn(db', last'.request.ambulanceId),
                           [list EXCEPT ![idx] = PatchOf(list[idx], last'.request.entry)])]_vars

\* C11 witness: an update that supplied a patient and no duration has been
\* stored in a list of two.
C11_Witness ==
    /\ last.request.op = "Update"
    /\ last.status = StatusOK
    /\ last.request.entry.PatientId # ""
    /\ last.request.entry.EstimatedDurationMinutes <= 0
    /\ last.request.entry.WaitingSince = ZeroTime
    /\ Len(WaitingList) = 2
    /\ \A i \in 1..Len(WaitingList) : WaitingList[i].EstimatedDurationMinutes > 0

\* C12: a successful Update-entry answers with the entry it updated: the one
\* the path id addressed, carrying the patched fields.
C12_ReturnsUpdatedEntry ==
    [][(Handled("Update") /\ last'.status = StatusOK) =>
        LET list == ListIn(db, last'.request.ambulanceId)
            idx == IndexOfId(list, last'.request.entryId)
        IN  /\ idx > 0
            /\ last'.body = PatchOf(list[idx], last'.request.entry)]_vars

\* The request handled addresses an entry id that no entry of the
\* ambulance's list has.
AddressesMissingEntry ==
    /\ last = NoResponse
    /\ last'.request.op \in {"Delete", "Update", "Get"}
    /\ IndexOfId(ListIn(db, last'.request.ambulanceId), last'.request.entryId) = 0

\* C13 as stated: a Delete-entry, Update-entry or Get-entry addressed to an
\* entry id that is not in the list is answered 404 and the store stays as
\* it is.
C13_Original ==
    [][AddressesMissingEntry
        => (last'.status = StatusNotFound /\ db' = db)]_vars

\* C13 amended: a Delete-entry or Get-entry, or an Update-entry whose body
\* could be decoded, addressed to an entry id that is not in the list is
\* answered 404 and the store stays as it is.
C13_MissingEntryNotFound ==
    [][(AddressesMissingEntry /\ (last'.request.op = "Update" => last'.request.bound))
        => (last'.status = StatusNotFound /\ db' = db)]_vars

\* C13 witness: an update with a decodable body was answered 404 by an
\* ambulance with somebody waiting.
C13_Witness ==
    /\ last.request.op = "Update"
    /\ last.request.bound
    /\ last.request.ambulanceId = AmbulanceId
    /\ last.status = StatusNotFound
    /\ Len(WaitingList) > 0

\* C14: every stored entry has a duration greater than zero, and a
\* Create-entry whose body gives a duration of zero or less stores the
\* default of 15.
C14_DurationPositive ==
    /\ [](\A i \in 1..Len(WaitingList) : WaitingList[i].EstimatedDurationMinutes > 0)
    /\ [][(/\ Handled("Create")
            /\ last'.status = StatusOK
            /\ last'.request.entry.EstimatedDurationMinutes <= 0)
            => last'.body.EstimatedDurationMinutes = DefaultDuration]_vars

\* C14 witness: an update whose body gives a duration of zero or less has
\* been stored, and an entry created with the default duration is waiting.
C14_Witness ==
    /\ last.request.op = "Update"
    /\ last.status = StatusOK
    /\ last.request.entry.EstimatedDurationMinutes <= 0
    /\ \E i \in 1..Len(WaitingList) :
        WaitingList[i].EstimatedDurationMinutes = DefaultDuration

\* The ids of the entries of a list.
IdsOf(list) == {list[i].Id : i \in 1..Len(list)}

\* C15: a Create-entry that names a patient and carries an empty Id or the
\* placeholder is refused with 409 only if its patient is waiting already;
\* otherwise it stores one more entry, under an id that is neither empty nor
\* the placeholder and that no entry of the list had.
C15_FreshId ==
    [][(/\ Handled("Create")
        /\ last'.request.bound
        /\ HasDoc(db, last'.request.ambulanceId)
        /\ last'.request.entry.PatientId # ""
        /\ last'.request.entry.Id \in {"", Placeholder})
        => LET list == ListIn(db, last'.request.ambulanceId)
               stored == ListIn(db', last'.request.ambulanceId)
           IN  IF \E i \in 1..Len(list) : list[i].PatientId = last'.request.entry.PatientId
               THEN last'.status = StatusConflict /\ db' = db
               ELSE /\ last'.status = StatusOK
                    /\ last'.body.Id \notin {"", Placeholder} \cup IdsOf(list)
                    /\ last'.body \in Entries(stored)
                    /\ Len(stored) = Len(list) + 1]_vars

\* C15 witness: a create carrying the placeholder succeeded although an
\* entry with the placeholder as its Id is waiting.
C15_Witness ==
    /\ last.request.op = "Create"
    /\ last.request.entry.Id = Placeholder
    /\ last.status = StatusOK
    /\ Placeholder \in IdsOf(WaitingList)
    /\ last.body.Id \in IdsOf(WaitingList)

\* Tasks t and u have both been answered 200 to creates for different
\* patients, having read the same ambulance in the same state.
BothCreated(t, u) ==
    /\ t # u
    /\ answer[t].status = StatusOK
    /\ answer[u].status = StatusOK
    /\ answer[t].request.entry.PatientId # answer[u].request.entry.PatientId
    /\ loaded[t] = loaded[u]

\* C16: when the later of two concurrent creates for different patients
\* that read the same list is answered 200, the earlier having been answered
\* 200 too, the list it stores holds no entry of the earlier one's patient:
\* the later save overwrites the earlier.
C16_LostUpdate ==
    [][\A t, u \in ReqTasks :
        (answer[t] # NoResponse /\ answer[u] = NoResponse /\ BothCreated(t, u)') =>
            LET stored == ListIn(db', loaded[u].ambulanceId)
            IN  /\ answer'[u].body \in Entries(stored)
                /\ \A i \in 1..Len(stored) :
                    stored[i].PatientId # answer[t].request.entry.PatientId]_vars

\* C16 witness: two concurrent creates for different patients were both
\* answered 200 and the stored list holds the entry of one of them only.
C16_Witness ==
    \E t, u \in ReqTasks :
        /\ BothCreated(t, u)
        /\ loaded[t].ambulanceId = AmbulanceId
        /\ WaitingList = <<answer[u].body>>
        /\ answer[t].body # answer[u].body

\* The request handled is for ambulance A1 and, if it has a body, the body
\* names a patient and nothing else.
ScenarioRequest(o) ==
    /\ Handled(o)
    /\ last'.request.ambulanceId = AmbulanceId
    /\ o = "Create" =>
        /\ last'.request.bound
        /\ last'.request.entry.Id = ""
        /\ last'.request.entry.PatientId # ""
        /\ last'.request.entry.WaitingSince = ZeroTime
        /\ last'.request.entry.EstimatedDurationMinutes = 0

\* C17: handled one after the other on ambulance A1, a create naming only a
\* patient on the empty list is answered 200 with a generated Id, a duration
\* of 15 and the time of handling, and is then the one entry waiting; the
\* same create again is answered 409 and changes nothing; the delete of the
\* entry's id is answered 204 and leaves the list empty; a get-all on the
\* empty list is answered 200 with no entries.
C17_Scenario ==
    /\ [][(ScenarioRequest("Create") /\ WaitingList = <<>>)
            => /\ last'.status = StatusOK
               /\ last'.body.Id = UuidNames[uuids + 1]
               /\ last'.body.PatientId = last'.request.entry.PatientId
               /\ last'.body.EstimatedDurationMinutes = DefaultDuration
               /\ last'.body.WaitingSince \in now..now'
               /\ WaitingList' = <<last'.body>>]_vars
    /\ [][(/\ ScenarioRequest("Create")
            /\ Len(WaitingList) = 1
            /\ WaitingList[1].PatientId = last'.request.entry.PatientId)
            => (last'.status = StatusConflict /\ db' = db)]_vars
    /\ [][(/\ ScenarioRequest("Delete")
            /\ Len(WaitingList) = 1
            /\ WaitingList[1].Id = last'.request.entryId)
            => (last'.status = StatusNoContent /\ WaitingList' = <<>>)]_vars
    /\ [][(ScenarioRequest("GetAll") /\ WaitingList = <<>>)
            => /\ last'.status = StatusOK
               /\ last'.entries = <<>>
               /\ db' = db]_vars

\* C17 witness: a get-all is answered with no entries after two creates
\* had an id generated and the list has been emptied again.
C17_Witness ==
    /\ last.request.op = "GetAll"
    /\ last.request.ambulanceId = AmbulanceId
    /\ last.status = StatusOK
    /\ last.entries = <<>>
    /\ WaitingList = <<>>
    /\ uuids = 2

\* C18: reconciling a reconciled list changes nothing, neither its order nor
\* any field of an entry.
C18_ReconcileIdempotent ==
    \A t \in ReqTasks :
        answer[t].request.op = "Reconcile" =>
            /\ loaded[t].list = reconcileWaitingList(answer[t].entries)
            /\ reconcileWaitingList(loaded[t].list) = loaded[t].list

\* C18 witness: reconciliation has put a list of two into another order.
C18_Witness ==
    /\ answer[1].request.op = "Reconcile"
    /\ Len(answer[1].entries) = 2
    /\ loaded[1].list # answer[1].entries

\* The {Id, PatientId} pairs of a list.
Pairs(list) == {<<list[i].Id, list[i].PatientId>> : i \in 1..Len(list)}

\* C19: a reconciled list has the {Id, PatientId} pairs of the list it was
\* made from and as many entries, and no Create-entry is answered 500.
C19_ReconcilePreservesIdentities ==
    \A t \in ReqTasks :
        /\ answer[t].request.op = "Reconcile" =>
            /\ Pairs(loaded[t].list) = Pairs(answer[t].entries)
            /\ Len(loaded[t].list) = Len(answer[t].entries)
        /\ answer[t].request.op = "Create" =>
            answer[t].status # StatusInternalServerError

\* C19 witness: a create was answered 200 with an entry that reconciliation
\* has moved from the end of the list to its front.
C19_Witness ==
    /\ answer[1].request.op = "Create"
    /\ answer[1].status = StatusOK
    /\ Len(WaitingList) = 2
    /\ WaitingList[1] = answer[1].body
    /\ WaitingList[2] = loaded[1].list[1]

\* C20: a step that changes the cached handle is taken by the task that
\* holds the lock, and a connect whose first load finds a handle returns
\* that handle at once, leaving lock and handle as they are.
C20_WritesUnderLock ==
    /\ [][client' # client =>
            /\ clientLock # NoTask
            /\ pc'[clientLock] # pc[clientLock]]_vars
    /\ [][\A t \in Tasks :
            (pc[t] = "connect_load" /\ client # NoClient /\ pc'[t] # pc[t]) =>
                /\ handle'[t] = client
                /\ pc'[t] = "find_one"
                /\ UNCHANGED <<client, clientLock>>]_vars

\* C20 witness: a handle that connect stored is held by a task while a
\* Disconnect that has returned has cleared it.
C20_Witness ==
    \E t, u \in Tasks :
        /\ t # u
        /\ pc[t] = "find_one"
        /\ handle[t] # NoClient
        /\ op[u] = "Disconnect"
        /\ pc[u] = "done"
        /\ client = NoClient
        /\ conns = 1

\* C21: the handle of a store operation that has it from connect and has
\* not yet finished with it has not been torn down.
C21_HandleLiveWhileUsed ==
    \A t \in Tasks :
        pc[t] \in {"find_one", "insert_one", "replace_one", "delete_one"}
            => teardowns[handle[t]] = 0

\* C22: when a Disconnect invoked while another task was constructing a
\* connection has returned, and so has that task's connect, the connection
\* constructed is not the cached one and has been torn down.
C22_DisconnectDuringConnect ==
    \A t \in Tasks :
        LET u == during[t]
        IN  (/\ op[t] = "Disconnect"
             /\ pc[t] = "done"
             /\ u # NoTask
             /\ pc[u] \in {"find_one", "done"}
             /\ result[u] # ErrConnect)
            => /\ client # handle[u]
               /\ teardowns[handle[u]] >= 1

\* C23: when FindDocument(id) runs after a successful CreateDocument(id, doc)
\* or UpdateDocument(id, doc) and no other write, it returns doc, whatever
\* the id field of doc is.
C23_StoredUnderIdArgument ==
    [][\A t, u \in StoreTasks :
          (/\ op[t] \in {"Create", "Update"}
           /\ pc[t] = "done"
           /\ result[t] = Ok
           /\ \A v \in Tasks \ {t} : op[v] \in {None, "Find"}
           /\ op[u] = "Find"
           /\ argId[u] = argId[t]
           /\ pc[u] = "find_one"
           /\ pc'[u] = "done")
          => /\ result'[u] = Ok
             /\ found'[u] = argDoc[t]]_vars

====
